---- MODULE Spec2Model ----
(***************************************************************************)
(* Model of the philosopher tester harness (src/philosopher_tester.py):     *)
(* PhilosopherTester.run_all_tests drives run_command, which spawns the     *)
(* target, starts the capture thread _capture_output, supervises the        *)
(* process (poll loop, terminate, kill, or a blocking wait), raises the     *)
(* stop flag, joins the thread for at most one second and returns           *)
(* (returncode, output_lines).  The target program and the descendants it   *)
(* may leave behind are the environment.  The scenarios' analyses of the     *)
(* returned pair (also those of src/philosopher_tester_simple.py) and the   *)
(* event tracker of src/philosopher_visualizer.py (_parse_event,            *)
(* print_statistics) are modelled as functions and applied by specifications *)
(* of their own.  Termination of one supervised run is examined under        *)
(* specifications that state the scheduling of the threads (SpecOnce for    *)
(* run_command, SpecSim for PhilosopherVisualizer.run_simulation).          *)
(*                                                                          *)
(* A text line is the sequence of words obtained by splitting it on single  *)
(* spaces ("" stands for the empty word, so leading, trailing and doubled   *)
(* spaces are visible).  Substring tests are modelled on whole words.       *)
(***************************************************************************)
EXTENDS Integers, Sequences, FiniteSets, TLC

\* ------------------------------------------------------------------ bounds
MaxLines == 1       \* lines written to one stdout pipe over its lifetime
MaxOut == 2         \* lines of an output list handed to a scenario's checks
MaxStale == 1       \* capture threads of earlier runs that may still be alive

\* ------------------------------------------------------- program constants
None == 1000        \* Python's None where an integer may also stand
NCalls == 11        \* run_command calls made by run_all_tests (1+1+1+1+5+1+1)
SpawnFailCode == 0 - 1
SIGTERM == 15
SIGKILL == 9
SIGHUP == 1

Calls == 1..NCalls

\* the scenario that makes the c-th run_command call
CallTest(c) ==
    CASE c = 1 -> "format"
      [] c = 2 -> "death"
      [] c = 3 -> "one"
      [] c = 4 -> "meals"
      [] c \in 5..9 -> "error"
      [] c = 10 -> "deadlock"
      [] OTHER -> "stress"

\* the timeout argument of the c-th run_command call
CallTimeout(c) ==
    CASE c = 1 -> 3
      [] c \in 2..4 -> None
      [] c \in 5..9 -> 1
      [] OTHER -> 5

\* `if timeout is not None:` -- 0 counts as a timeout
Truthy_NotNone(t) == t # None

\* `if timeout:` -- None and 0 are falsy
Truthy(t) == t # None /\ t # 0

\* ------------------------------------------------------------------- lines
Numeral == ("1" :> 1) @@ ("2" :> 2) @@ ("310" :> 310) @@ ("800" :> 800)
             @@ ("3" :> 3) @@ ("4" :> 4) @@ ("5" :> 5) @@ ("6" :> 6)
             @@ ("321" :> 321) @@ ("831" :> 831)

IsDigits(w) == w \in DOMAIN Numeral

AllAtePhrase == <<"All", "philosophers", "have", "eaten", "enough">>

\* lines the target may write (raw, before strip)
LineSet == { <<"310", "1", "died", "">>,
             <<"Error">> }

\* captured lines the scenarios' checks are tried on
TestLines == { <<"310", "1", "died">>,
               <<"philo", "died">>,
               <<"philo", "is", "eating">>,
               <<"Error">>,
               AllAtePhrase }

RECURSIVE LStrip(_)
LStrip(l) == IF Len(l) > 1 /\ Head(l) = "" THEN LStrip(Tail(l)) ELSE l

RECURSIVE RStrip(_)
RStrip(l) == IF Len(l) > 1 /\ l[Len(l)] = "" THEN RStrip(SubSeq(l, 1, Len(l) - 1)) ELSE l

\* str.strip(): drops leading and trailing whitespace
Strip(l) == RStrip(LStrip(l))

StripAll(ls) == [i \in 1..Len(ls) |-> Strip(ls[i])]

\* str.split(): the non-empty words
Split(l) == SelectSeq(l, LAMBDA w : w # "")

\* `phrase in line`
Contains(l, phrase) ==
    \E i \in 1..(Len(l) - Len(phrase) + 1) : SubSeq(l, i, i + Len(phrase) - 1) = phrase

IsPrefix(s, t) == Len(s) <= Len(t) /\ SubSeq(t, 1, Len(s)) = s

\* ------------------------------------------------------------------- state
VARIABLES
    pc,             \* position of the main thread
    timeout,        \* the timeout argument of the current run_command call
    process,        \* self.process: the slot of the Popen object, 0 for None
    output_thread,  \* self.output_thread, likewise
    stop_thread,    \* self.stop_thread
    output_lines,   \* contents of the list self.output_lines is bound to
    failed,         \* the current call took the except branch and returns (-1, [])
    ret,            \* the exit code the current call returns
    call,           \* run_all_tests: number of the next run_command call
    tests_passed, tests_failed, total_tests,
    pst,            \* per process: "unborn", "alive" or "dead"
    pcode,          \* per process: its exit status once dead
    returncode,     \* per process: Popen.returncode, None until poll()/wait() reaps it
    pending,        \* per process: signals sent and not yet acted on
    held,           \* per process: a descendant keeps the write end of its stdout open
    buf,            \* per process: lines in its stdout pipe, not yet read
    nlines,         \* per process: lines written into its pipe so far
    tpc,            \* per capture thread: "unborn", "loop", "readline", "drain", "done"
    tstream,        \* per capture thread: the process whose stdout it is reading
    remaining,      \* per capture thread: lines gathered so far by readlines()
    written,        \* history: every line written into the current process's pipe
    nown,           \* history: how many of them the process wrote itself
    sent,           \* history: signals run_command sent to the current process
    first,          \* history: what the first completed run returned, and how it ended
    result,         \* what a scenario's analysis of (ret, output_lines) computed
    eating_events,  \* PhilosopherVisualizer: self.eating_events
    fork_events,    \* PhilosopherVisualizer: self.fork_events
    philosopher_states, \* PhilosopherVisualizer: self.philosopher_states
    max_time,       \* PhilosopherVisualizer: self.max_time
    meal_intervals, \* PhilosopherVisualizer: self.meal_intervals, by actor
    errtodo,        \* what the target has still to write to its stderr before it can go on
    errbuf          \* what sits in the stderr pipe of the current process, unread

vars == << pc, timeout, process, output_thread, stop_thread, output_lines, failed, ret, call,
           tests_passed, tests_failed, total_tests, pst, pcode, returncode, pending,
           held, buf, nlines, tpc, tstream, remaining, written, nown, sent, first,
           result, eating_events, fork_events, philosopher_states, max_time,
           meal_intervals, errtodo, errbuf >>

mainVars == << pc, timeout, process, output_thread, stop_thread, failed, ret >>
scoreVars == << call, tests_passed, tests_failed, total_tests >>
procVars == << pst, pcode, returncode, pending, held >>
threadVars == << tpc, tstream, remaining >>
histVars == << written, nown, sent >>
trackVars == << eating_events, fork_events, philosopher_states, max_time, meal_intervals >>
errVars == << errtodo, errbuf >>
\* what the tester's run_command and run_all_tests never touch
extVars == << result, trackVars, errVars >>

\* ---------------------------------------------------------- scenario checks
EventPhrases == { <<"has", "taken", "a", "fork">>, <<"is", "eating">>, <<"is", "sleeping">>,
                  <<"is", "thinking">>, <<"died">> }

\* the pattern without its closing `$`: anything may follow the phrase
check_format_Unanchored(l) ==
    /\ Len(l) >= 3
    /\ IsDigits(l[1])
    /\ IsDigits(l[2])
    /\ \E n \in 3..Len(l) : SubSeq(l, 3, n) \in EventPhrases

\* re.match(r"^\d+ \d+ (has taken a fork|is eating|is sleeping|is thinking|died)$", line)
check_format(l) ==
    /\ Len(l) >= 3
    /\ IsDigits(l[1])
    /\ IsDigits(l[2])
    /\ SubSeq(l, 3, Len(l)) \in EventPhrases

AnyLine(out, phrase) == \E i \in 1..Len(out) : Contains(out[i], phrase)

\* next(line for line in output if phrase in line)
FirstLine(out, phrase) ==
    out[CHOOSE i \in 1..Len(out) :
            /\ Contains(out[i], phrase)
            /\ \A j \in 1..(i - 1) : ~Contains(out[j], phrase)]

Abs(x) == IF x < 0 THEN 0 - x ELSE x

\* int(line.split()[k]) raises when there is no k-th word or it is no number
IntRaises(l, k) == Len(Split(l)) < k \/ ~IsDigits(Split(l)[k])
IntField(l, k) == Numeral[Split(l)[k]]

Outcome(checks, raised) == [checks |-> checks, raised |-> raised]

\* line 126: `if len(invalid_lines) >= 5: break`
MaxReported == 5

\* a flag that outlives the evaluation: lowered once a verdict is on record
valid_format_init_Carried == result.test = "none"

\* line 119: `valid_format = True`, set anew by every evaluation
valid_format_init == TRUE

\* lines 119-127: the loop over the output from line i on; an offending line
\* lowers valid_format and is noted (by its index), the fifth one ends the loop
RECURSIVE format_loop(_, _, _, _)
format_loop(out, i, valid_format, invalid_lines) ==
    IF i > Len(out)
      THEN [valid_format |-> valid_format, invalid_lines |-> invalid_lines]
      ELSE IF ~check_format(out[i]) /\ ~Contains(out[i], AllAtePhrase)
             THEN IF Len(invalid_lines) + 1 >= MaxReported
                    THEN [valid_format |-> FALSE, invalid_lines |-> Append(invalid_lines, i)]
                    ELSE format_loop(out, i + 1, FALSE, Append(invalid_lines, i))
             ELSE format_loop(out, i + 1, valid_format, invalid_lines)

run_basic_format_test(return_code, out) ==
    Outcome(<< format_loop(out, 1, valid_format_init, <<>>).valid_format >>, FALSE)

run_death_detection_test(return_code, out) ==
    LET death_reported == AnyLine(out, <<"died">>)
        death_line == FirstLine(out, <<"died">>)
    IN  IF ~death_reported THEN Outcome(<<FALSE>>, FALSE)
        ELSE IF IntRaises(death_line, 1) THEN Outcome(<<TRUE>>, TRUE)
        ELSE Outcome(<<TRUE, Abs(IntField(death_line, 1) - 310) <= 10>>, FALSE)

run_one_philosopher_test(return_code, out) ==
    LET took_fork == AnyLine(out, <<"has", "taken", "a", "fork">>)
        died == AnyLine(out, <<"died">>)
        death_line == FirstLine(out, <<"died">>)
    IN  IF ~died THEN Outcome(<<took_fork, FALSE, FALSE>>, FALSE)
        ELSE IF IntRaises(death_line, 1) THEN Outcome(<<>>, TRUE)
        ELSE Outcome(<<took_fork, TRUE, Abs(IntField(death_line, 1) - 800) <= 30>>, FALSE)

run_stop_after_meals_test(return_code, out) ==
    Outcome(<<AnyLine(out, AllAtePhrase), ~AnyLine(out, <<"died">>)>>, FALSE)

\* one case of run_error_handling_test's loop
run_error_handling_test(return_code, out) ==
    Outcome(<<AnyLine(out, <<"Error">>) /\ return_code # 0>>, FALSE)

run_deadlock_test(return_code, out) ==
    LET eating == {i \in 1..Len(out) : Contains(out[i], <<"is", "eating">>)}
        philosopher_eating == {IntField(out[i], 2) : i \in eating}
    IN  IF \E i \in eating : IntRaises(out[i], 2) THEN Outcome(<<>>, TRUE)
        ELSE Outcome(<<Cardinality(philosopher_eating) = 5>>, FALSE)

run_stress_test(return_code, out) ==
    Outcome(<<return_code # SpawnFailCode /\ ~AnyLine(out, <<"Segmentation", "fault">>)>>, FALSE)

\* the actors of the deadlock scenario: `== 5`, range(1, 6)
NPhilo == 5

\* a threshold above twice the number of actors
MinMeals_Raised == 10 + 4

\* philosopher_tester_simple.py line 290: `total_meals >= 10`
MinMeals == 10

\* the lines of an output that hold "is eating"
EatingLines(out) == {i \in 1..Len(out) : Contains(out[i], <<"is", "eating">>)}

\* eating_counts.get(philo_id, 0)
eating_counts(out, philo_id) ==
    Cardinality({i \in EatingLines(out) : IntField(out[i], 2) = philo_id})

\* sum(eating_counts.values())
total_meals(out) == Cardinality(EatingLines(out))

\* `meals <= avg_meals * 0.5`
below_half_mean_OrEqual(meals, total, n) == 2 * n * meals <= total

\* `meals < avg_meals * 0.5` with avg_meals = total / n, on exact numbers
below_half_mean(meals, total, n) == 2 * n * meals < total

\* philosopher_tester_simple.py, run_deadlock_test: the checks it records, with
\* all_ate and fair_distribution
simple_run_deadlock_test(return_code, out) ==
    LET all_ate == \A philo_id \in 1..NPhilo : eating_counts(out, philo_id) > 0
        fair_distribution ==
            ~ /\ all_ate
              /\ total_meals(out) >= MinMeals
              /\ \E philo_id \in 1..NPhilo :
                    below_half_mean(eating_counts(out, philo_id), total_meals(out), NPhilo)
    IN  IF \E i \in EatingLines(out) : IntRaises(out[i], 1) \/ IntRaises(out[i], 2)
          THEN [checks |-> <<>>, raised |-> TRUE, all_ate |-> FALSE, fair_distribution |-> TRUE]
          ELSE [checks |-> IF all_ate /\ ~fair_distribution THEN <<TRUE, FALSE>>
                           ELSE IF all_ate THEN <<TRUE>> ELSE <<FALSE>>,
                raised |-> FALSE, all_ate |-> all_ate, fair_distribution |-> fair_distribution]

\* the checks the scenario of call c records for one run_command result
TestOutcome(c, return_code, out) ==
    CASE CallTest(c) = "format" -> run_basic_format_test(return_code, out)
      [] CallTest(c) = "death" -> run_death_detection_test(return_code, out)
      [] CallTest(c) = "one" -> run_one_philosopher_test(return_code, out)
      [] CallTest(c) = "meals" -> run_stop_after_meals_test(return_code, out)
      [] CallTest(c) = "error" -> run_error_handling_test(return_code, out)
      [] CallTest(c) = "deadlock" -> run_deadlock_test(return_code, out)
      [] OTHER -> run_stress_test(return_code, out)

CountTrue(checks) == Cardinality({i \in 1..Len(checks) : checks[i]})

\* a scoreboard that counts every check as failed, the passed ones too
print_test_result_NoElse(sb, passed) ==
    [total_tests |-> sb.total_tests + 1,
     tests_passed |-> IF passed THEN sb.tests_passed + 1 ELSE sb.tests_passed,
     tests_failed |-> sb.tests_failed + 1]

\* print_test_result, lines 93-100: the counters after one check is recorded
print_test_result(sb, passed) ==
    [total_tests |-> sb.total_tests + 1,
     tests_passed |-> IF passed THEN sb.tests_passed + 1 ELSE sb.tests_passed,
     tests_failed |-> IF passed THEN sb.tests_failed ELSE sb.tests_failed + 1]

\* the checks of a scenario recorded one after the other, from the i-th on
RECURSIVE record_checks(_, _, _)
record_checks(sb, checks, i) ==
    IF i > Len(checks) THEN sb
    ELSE record_checks(print_test_result(sb, checks[i]), checks, i + 1)

\* one slot per Popen object / capture thread that can exist at a time
Slots == 1..(MaxStale + 1)

NoRun == [done |-> FALSE, ret |-> None, out |-> <<>>, signalled |-> FALSE]

NoResult == [test |-> "none"]

\* the analysis and tracker state while only the tester's run_command is at work
ExtIdle ==
    /\ result = NoResult
    /\ eating_events = <<>>
    /\ fork_events = <<>>
    /\ philosopher_states = <<>>
    /\ max_time = 0
    /\ meal_intervals = <<>>
    /\ errtodo = 0
    /\ errbuf = 0

Init ==
    /\ pc = "idle"
    /\ timeout = None
    /\ process = 0
    /\ output_thread = 0
    /\ stop_thread = FALSE
    /\ output_lines = <<>>
    /\ failed = FALSE
    /\ ret = None
    /\ call = 1
    /\ tests_passed = 0
    /\ tests_failed = 0
    /\ total_tests = 0
    /\ pst = [p \in Slots |-> "unborn"]
    /\ pcode = [p \in Slots |-> None]
    /\ returncode = [p \in Slots |-> None]
    /\ pending = [p \in Slots |-> {}]
    /\ held = [p \in Slots |-> FALSE]
    /\ buf = [p \in Slots |-> <<>>]
    /\ nlines = [p \in Slots |-> 0]
    /\ tpc = [t \in Slots |-> "unborn"]
    /\ tstream = [t \in Slots |-> 0]
    /\ remaining = [t \in Slots |-> <<>>]
    /\ written = <<>>
    /\ nown = 0
    /\ sent = <<>>
    /\ first = NoRun
    /\ ExtIdle

\* the write end of p's stdout pipe is open somewhere
PipeOpen(p) == p # 0 /\ (pst[p] = "alive" \/ held[p])

Alive(t) == tpc[t] \in {"loop", "readline", "drain"}

\* capture thread t can take no step until somebody writes to or closes its stream
Blocked(t) ==
    /\ tpc[t] \in {"readline", "drain"}
    /\ buf[tstream[t]] = <<>>
    /\ PipeOpen(tstream[t])

\* capture threads of earlier runs that are still alive
Stale == {t \in Slots : Alive(t) /\ t # output_thread}

\* a slot whose process, pipe and thread are gone and which no thread reads
Free(s) ==
    /\ ~Alive(s)
    /\ ~PipeOpen(s)
    /\ \A t \in Slots : Alive(t) => tstream[t] # s

\* --------------------------------------------- main thread: run_command
\* the timeout arguments run_command is called with; time is not measured, so
\* 5 stands for every positive timeout
Timeouts == {None, 0, 5}

\* the exit statuses a target may end with by itself (-1: taken down by SIGHUP)
ExitCodes == {0, 1, 0 - SIGHUP}

\* a target that receives SIGTERM dies of it or leaves through its handler
TermCodes == {0 - SIGTERM, 0}

\* run_command is entered; lines 25-26: a fresh list and a lowered stop flag.
\* What is left of earlier runs and can no longer be reached is dropped.
Call(t) ==
    /\ pc \in {"idle", "returned"}
    /\ timeout' = t
    /\ output_lines' = <<>>
    /\ stop_thread' = FALSE
    /\ failed' = FALSE
    /\ ret' = None
    /\ pc' = "spawn"
    /\ written' = <<>>
    /\ nown' = 0
    /\ sent' = <<>>
    /\ pcode' = [p \in Slots |-> None]
    /\ returncode' = [p \in Slots |-> None]
    /\ pst' = [p \in Slots |-> IF Free(p) THEN "unborn" ELSE pst[p]]
    /\ buf' = [p \in Slots |-> IF Free(p) THEN <<>> ELSE buf[p]]
    /\ nlines' = [p \in Slots |-> IF Free(p) THEN 0 ELSE nlines[p]]
    /\ tpc' = [p \in Slots |-> IF Free(p) THEN "unborn" ELSE tpc[p]]
    /\ UNCHANGED << process, output_thread, scoreVars, pending, held, tstream, remaining,
                    first, extVars >>

\* lines 30-43: Popen succeeds and the capture thread is started
SpawnOK(s) ==
    /\ pc = "spawn"
    /\ Free(s)
    /\ \A r \in Slots : r < s => ~Free(r)
    /\ pst' = [pst EXCEPT ![s] = "alive"]
    /\ buf' = [buf EXCEPT ![s] = <<>>]
    /\ nlines' = [nlines EXCEPT ![s] = 0]
    /\ process' = s
    /\ tpc' = [tpc EXCEPT ![s] = "loop"]
    /\ output_thread' = s
    /\ pc' = IF Truthy(timeout) THEN "poll" ELSE "wait"
    /\ UNCHANGED << timeout, stop_thread, output_lines, failed, ret, scoreVars, pcode,
                    returncode, pending, held, tstream, remaining, histVars, first, extVars >>

\* lines 66-68: Popen raises, run_command returns (-1, [])
SpawnFail ==
    /\ pc = "spawn"
    /\ failed' = TRUE
    /\ ret' = SpawnFailCode
    /\ pc' = "returned"
    /\ UNCHANGED << timeout, process, output_thread, stop_thread, output_lines, scoreVars,
                    procVars, buf, nlines, threadVars, histVars, first, extVars >>

\* a poll() / wait() that stores nothing
Reap_Skipped(p) == UNCHANGED returncode

\* poll() / wait() on a process that has ended stores its exit status
Reap(p) == returncode' = [returncode EXCEPT ![p] = pcode[p]]

\* line 47: poll() reports the exit, the loop ends, line 51 sees the same
PollExited ==
    /\ pc = "poll"
    /\ pst[process] = "dead"
    /\ Reap(process)
    /\ pc' = "stop"
    /\ UNCHANGED << timeout, process, output_thread, stop_thread, output_lines, failed, ret,
                    scoreVars, pst, pcode, pending, held, buf, nlines, threadVars, histVars,
                    first, extVars >>

\* line 47: time.time() - start_time reaches the timeout
Deadline ==
    /\ pc = "poll"
    /\ pc' = "check51"
    /\ UNCHANGED << timeout, process, output_thread, stop_thread, output_lines, failed, ret,
                    scoreVars, procVars, buf, nlines, threadVars, histVars, first, extVars >>

\* line 51: `if self.process.poll() is None`
ShouldTerminate(p) == pst[p] = "alive"

\* kill() sent without looking at the process again
ShouldKill_Unchecked(p) == TRUE

\* line 54: `if self.process.poll() is None`
ShouldKill(p) == pst[p] = "alive"

\* lines 51-53: terminate() and the grace sleep, or nothing for a process that ended
Check51 ==
    /\ pc = "check51"
    /\ IF ShouldTerminate(process)
         THEN /\ pending' = [pending EXCEPT ![process] = @ \cup {SIGTERM}]
              /\ sent' = Append(sent, "terminate")
              /\ pc' = "grace"
              /\ UNCHANGED returncode
         ELSE /\ Reap(process)
              /\ pc' = "stop"
              /\ UNCHANGED << pending, sent >>
    /\ UNCHANGED << timeout, process, output_thread, stop_thread, output_lines, failed, ret,
                    scoreVars, pst, pcode, held, buf, nlines, threadVars, written, nown, first, extVars >>

\* lines 54-55: kill() when the process outlived the grace sleep
Check54 ==
    /\ pc = "grace"
    /\ IF ShouldKill(process)
         THEN /\ pending' = [pending EXCEPT ![process] = @ \cup {SIGKILL}]
              /\ sent' = Append(sent, "kill")
              /\ UNCHANGED returncode
         ELSE /\ Reap(process)
              /\ UNCHANGED << pending, sent >>
    /\ pc' = "stop"
    /\ UNCHANGED << timeout, process, output_thread, stop_thread, output_lines, failed, ret,
                    scoreVars, pst, pcode, held, buf, nlines, threadVars, written, nown, first, extVars >>

\* a wait that does not wait
WaitReturns_AtOnce(p) == TRUE

\* line 58: self.process.wait() returns once the process has ended
WaitReturns(p) == pst[p] = "dead"

Wait ==
    /\ pc = "wait"
    /\ WaitReturns(process)
    /\ Reap(process)
    /\ pc' = "stop"
    /\ UNCHANGED << timeout, process, output_thread, stop_thread, output_lines, failed, ret,
                    scoreVars, pst, pcode, pending, held, buf, nlines, threadVars, histVars,
                    first, extVars >>

\* line 61
Stop ==
    /\ pc = "stop"
    /\ stop_thread' = TRUE
    /\ pc' = "join"
    /\ UNCHANGED << timeout, process, output_thread, output_lines, failed, ret, scoreVars,
                    procVars, buf, nlines, threadVars, histVars, first, extVars >>

\* line 64: the pair handed back; the list is self.output_lines itself
Return ==
    /\ ret' = returncode[process]
    /\ pc' = "returned"
    /\ UNCHANGED << timeout, process, output_thread, stop_thread, output_lines, failed,
                    scoreVars, procVars, buf, nlines, threadVars, histVars, extVars >>

\* line 62: join(1) returns because the thread has ended
JoinDone ==
    /\ pc = "join"
    /\ tpc[output_thread] = "done"
    /\ Return
    /\ UNCHANGED first

\* line 62: join(1) gives up after its second.  A second is taken to be long
\* enough for a pending SIGKILL to act and for a thread that can run to run.
JoinExpires(t) ==
    /\ Blocked(t)
    /\ SIGKILL \notin pending[process]

JoinTimeout ==
    /\ pc = "join"
    /\ JoinExpires(output_thread)
    /\ Cardinality(Stale) < MaxStale
    /\ Return
    /\ UNCHANGED first

\* the list the caller analyses: the live output_lines, or the [] of line 68
Output == IF failed THEN <<>> ELSE output_lines

\* ------------------------------------------------- the target (environment)
Record(p, l, own) ==
    IF p = process /\ pc \notin {"idle", "spawn"}
      THEN /\ written' = Append(written, l)
           /\ nown' = IF own THEN nown + 1 ELSE nown
      ELSE UNCHANGED << written, nown >>

\* the target prints a line
P_Write(p, l) ==
    /\ pst[p] = "alive"
    /\ nlines[p] < MaxLines
    /\ buf' = [buf EXCEPT ![p] = Append(@, l)]
    /\ nlines' = [nlines EXCEPT ![p] = @ + 1]
    /\ Record(p, l, TRUE)
    /\ UNCHANGED << mainVars, output_lines, scoreVars, procVars, threadVars, sent, first, extVars >>

Die(p, code, h) ==
    /\ pst' = [pst EXCEPT ![p] = "dead"]
    /\ pcode' = [pcode EXCEPT ![p] = code]
    /\ pending' = [pending EXCEPT ![p] = {}]
    /\ held' = [held EXCEPT ![p] = h]
    /\ UNCHANGED << mainVars, output_lines, scoreVars, returncode, buf, nlines, threadVars,
                    histVars, first, extVars >>

\* the target ends by itself; h: a descendant of it keeps the pipe open
P_Exit(p, code, h) ==
    /\ pst[p] = "alive"
    /\ pending[p] = {}
    /\ Die(p, code, h)

\* the target answers SIGTERM (one that ignores it takes no step)
P_Term(p, code, h) ==
    /\ pst[p] = "alive"
    /\ SIGTERM \in pending[p]
    /\ Die(p, code, h)

\* SIGKILL acts
P_Killed(p, h) ==
    /\ pst[p] = "alive"
    /\ SIGKILL \in pending[p]
    /\ Die(p, 0 - SIGKILL, h)

\* a descendant left behind prints a line
D_Write(p, l) ==
    /\ held[p]
    /\ nlines[p] < MaxLines
    /\ buf' = [buf EXCEPT ![p] = Append(@, l)]
    /\ nlines' = [nlines EXCEPT ![p] = @ + 1]
    /\ Record(p, l, FALSE)
    /\ UNCHANGED << mainVars, output_lines, scoreVars, procVars, threadVars, sent, first, extVars >>

\* the last descendant ends
D_Close(p) ==
    /\ held[p]
    /\ held' = [held EXCEPT ![p] = FALSE]
    /\ UNCHANGED << mainVars, output_lines, scoreVars, pst, pcode, returncode, pending, buf,
                    nlines, threadVars, histVars, first, extVars >>

\* ------------------------------------------- capture thread: _capture_output
\* lines 72-74: the loop test, then readline() on the stdout of self.process;
\* lines 81-82 when the flag is up: readlines() on the stdout of self.process
T_Loop(t) ==
    /\ tpc[t] = "loop"
    /\ tpc' = [tpc EXCEPT ![t] = IF stop_thread THEN "drain" ELSE "readline"]
    /\ tstream' = [tstream EXCEPT ![t] = process]
    /\ UNCHANGED << mainVars, output_lines, scoreVars, procVars, buf, nlines, remaining,
                    histVars, first, extVars >>

\* line 76: what a line read by readline() is stored as
Captured(l) == Strip(l)

\* lines 74-78: readline() returns a line, which is appended stripped, or ""
\* at end of file, which leaves the loop for lines 81-82
T_Readline(t) ==
    /\ tpc[t] = "readline"
    /\ LET s == tstream[t]
       IN  \/ /\ buf[s] # <<>>
              /\ output_lines' = Append(output_lines, Captured(Head(buf[s])))
              /\ buf' = [buf EXCEPT ![s] = Tail(@)]
              /\ tpc' = [tpc EXCEPT ![t] = "loop"]
              /\ tstream' = [tstream EXCEPT ![t] = 0]
           \/ /\ buf[s] = <<>>
              /\ ~PipeOpen(s)
              /\ tpc' = [tpc EXCEPT ![t] = "drain"]
              /\ tstream' = [tstream EXCEPT ![t] = process]
              /\ UNCHANGED << output_lines, buf >>
    /\ UNCHANGED << mainVars, scoreVars, procVars, nlines, remaining, histVars, first, extVars >>

\* line 82: readlines() takes in one more line
T_DrainRead(t) ==
    /\ tpc[t] = "drain"
    /\ buf[tstream[t]] # <<>>
    /\ remaining' = [remaining EXCEPT ![t] = Append(@, Head(buf[tstream[t]]))]
    /\ buf' = [buf EXCEPT ![tstream[t]] = Tail(@)]
    /\ UNCHANGED << mainVars, output_lines, scoreVars, procVars, nlines, tpc, tstream,
                    histVars, first, extVars >>

\* lines 82-83: readlines() meets end of file; the lines are appended and the
\* thread ends
T_DrainEOF(t) ==
    /\ tpc[t] = "drain"
    /\ buf[tstream[t]] = <<>>
    /\ ~PipeOpen(tstream[t])
    /\ output_lines' = output_lines \o StripAll(remaining[t])
    /\ tpc' = [tpc EXCEPT ![t] = "done"]
    /\ tstream' = [tstream EXCEPT ![t] = 0]
    /\ remaining' = [remaining EXCEPT ![t] = <<>>]
    /\ UNCHANGED << mainVars, scoreVars, procVars, buf, nlines, histVars, first, extVars >>

\* ------------------------------------------------------------ specification
Target ==
    \/ \E p \in Slots, code \in ExitCodes, h \in BOOLEAN : P_Exit(p, code, h)
    \/ \E p \in Slots, code \in TermCodes, h \in BOOLEAN : P_Term(p, code, h)
    \/ \E p \in Slots, h \in BOOLEAN : P_Killed(p, h)
    \/ \E p \in Slots : D_Close(p)

Capture ==
    \/ \E t \in Slots : T_Loop(t)
    \/ \E t \in Slots : T_Readline(t)
    \/ \E t \in Slots : T_DrainRead(t)
    \/ \E t \in Slots : T_DrainEOF(t)

Supervise ==
    \/ \E t \in Timeouts : Call(t)
    \/ \E s \in Slots : SpawnOK(s)
    \/ SpawnFail
    \/ PollExited
    \/ Deadline
    \/ Check51
    \/ Check54
    \/ Wait
    \/ Stop

\* a PhilosopherTester whose run_command is called again and again
Next ==
    \/ Supervise
    \/ JoinDone
    \/ JoinTimeout
    \/ Target
    \/ \E p \in Slots, l \in LineSet : P_Write(p, l)
    \/ \E p \in Slots, l \in LineSet : D_Write(p, l)
    \/ Capture

Spec == Init /\ [][Next]_vars

\* two successive runs of targets that print nothing, the first run remembered
Remember ==
    first' = IF first.done THEN first
             ELSE [done |-> TRUE, ret |-> returncode[process], out |-> output_lines,
                   signalled |-> sent # <<>>]

JoinDoneR ==
    /\ pc = "join"
    /\ tpc[output_thread] = "done"
    /\ Return
    /\ Remember

JoinTimeoutR ==
    /\ pc = "join"
    /\ JoinExpires(output_thread)
    /\ Cardinality(Stale) < MaxStale
    /\ Return
    /\ Remember

\* readlines() has nothing to take in from a target that prints nothing
NextPair ==
    \/ Supervise
    \/ JoinDoneR
    \/ JoinTimeoutR
    \/ Target
    \/ \E t \in Slots : T_Loop(t)
    \/ \E t \in Slots : T_Readline(t)
    \/ \E t \in Slots : T_DrainEOF(t)

SpecPair == Init /\ [][NextPair]_vars

\* ------------------------------------------------------------ run_all_tests
\* the exit codes run_command can hand back for a spawned process
RetCodes(t) == IF Truthy(t) THEN ExitCodes \cup TermCodes \cup {None} ELSE ExitCodes

RECURSIVE SeqsUpTo(_, _)
SeqsUpTo(S, n) ==
    IF n = 0 THEN {<<>>}
    ELSE LET shorter == SeqsUpTo(S, n - 1)
         IN  shorter \cup {Append(q, x) : q \in {r \in shorter : Len(r) = n - 1}, x \in S}

Outputs == SeqsUpTo(TestLines, MaxOut)

\* one run_command call of a scenario, by what it returns (lines 64 and 68),
\* followed by the scenario's checks on the returned pair, each recorded through
\* print_test_result; an exception raised by a check leaves run_all_tests
\* a loop that gives up at the first scenario with a failed check
Proceeds_IfPassed(o) == ~o.raised /\ CountTrue(o.checks) = Len(o.checks)

\* lines 310-311: `for test in tests: test()` goes on to the next scenario
\* whatever the checks found, unless an exception leaves the loop
Proceeds(o) == ~o.raised

RunCall(f, r, out) ==
    /\ pc = "tests"
    /\ timeout' = CallTimeout(call)
    /\ failed' = f
    /\ ret' = r
    /\ output_lines' = out
    /\ \E o \in {TestOutcome(call, r, out)} :
         \E sb \in {record_checks([total_tests |-> total_tests, tests_passed |-> tests_passed,
                                    tests_failed |-> tests_failed], o.checks, 1)} :
           /\ total_tests' = sb.total_tests
           /\ tests_passed' = sb.tests_passed
           /\ tests_failed' = sb.tests_failed
           /\ pc' = IF ~Proceeds(o) THEN "crashed" ELSE IF call = NCalls THEN "done" ELSE "tests"
           /\ call' = IF ~Proceeds(o) THEN call ELSE call + 1
    /\ UNCHANGED << process, output_thread, stop_thread, procVars, buf, nlines, threadVars,
                    histVars, first, extVars >>

RunSpawned ==
    \E r \in RetCodes(CallTimeout(call)), out \in Outputs : RunCall(FALSE, r, out)

RunSpawnFailed == RunCall(TRUE, SpawnFailCode, <<>>)

InitTests ==
    /\ pc = "tests"
    /\ timeout = None
    /\ process = 0
    /\ output_thread = 0
    /\ stop_thread = FALSE
    /\ output_lines = <<>>
    /\ failed = FALSE
    /\ ret = None
    /\ call = 1
    /\ tests_passed = 0
    /\ tests_failed = 0
    /\ total_tests = 0
    /\ pst = [p \in Slots |-> "unborn"]
    /\ pcode = [p \in Slots |-> None]
    /\ returncode = [p \in Slots |-> None]
    /\ pending = [p \in Slots |-> {}]
    /\ held = [p \in Slots |-> FALSE]
    /\ buf = [p \in Slots |-> <<>>]
    /\ nlines = [p \in Slots |-> 0]
    /\ tpc = [t \in Slots |-> "unborn"]
    /\ tstream = [t \in Slots |-> 0]
    /\ remaining = [t \in Slots |-> <<>>]
    /\ written = <<>>
    /\ nown = 0
    /\ sent = <<>>
    /\ first = NoRun
    /\ ExtIdle

NextTests == RunSpawned \/ RunSpawnFailed

SpecTests == InitTests /\ [][NextTests]_vars

\* ------------------------------------------------- the scenarios' analyses
\* A scenario's analysis is a function of the pair run_command returned.  It is
\* applied here to pairs drawn from bounded sets.
MaxFormatLen == 6   \* lines of an output the format check is tried on

\* captured lines the format check is tried on: an event, a line around the
\* quota phrase, a line that is neither, an event followed by one more word
FormatLines == { <<"310", "1", "died">>,
                 <<"OK", "All", "philosophers", "have", "eaten", "enough", "now">>,
                 <<"Error">>,
                 <<"310", "1", "died", "too">> }

FormatOutputs == SeqsUpTo(FormatLines, MaxFormatLen)

MaxScenarioLen == 3 \* lines of an output the death, one-philosopher and quota checks are tried on

\* captured lines those checks are tried on: deaths in and out of tolerance, a
\* fork, the quota line, and two lines that hold the word died without being
\* death events
ScenarioLines == { <<"310", "1", "died">>,
                   <<"321", "1", "died">>,
                   <<"800", "1", "died">>,
                   <<"831", "1", "died">>,
                   <<"1", "1", "has", "taken", "a", "fork">>,
                   AllAtePhrase,
                   <<"310", "died">>,
                   <<"philo", "died">> }

ScenarioOutputs == SeqsUpTo(ScenarioLines, MaxScenarioLen)

MaxMeals == 3       \* "is eating" lines of one actor in an output

IdWord == <<"1", "2", "3", "4", "5", "6">>

RECURSIVE Repeat(_, _)
Repeat(l, n) == IF n = 0 THEN <<>> ELSE <<l>> \o Repeat(l, n - 1)

\* an output in which actor id has c[id] "is eating" lines
RECURSIVE EatingOutput(_, _)
EatingOutput(c, id) ==
    IF id > Len(IdWord) THEN <<>>
    ELSE Repeat(<<"1", IdWord[id], "is", "eating">>, c[id]) \o EatingOutput(c, id + 1)

\* actors 1..5 with up to MaxMeals meals each, and an actor 6 that may show up
EatingOutputs ==
    { EatingOutput(c, 1) :
        c \in { d \in [1..Len(IdWord) -> 0..MaxMeals] : d[Len(IdWord)] <= 1 } }

\* captured lines the stress check is tried on
StressLines == { <<"Segmentation", "fault">>, <<"1", "1", "is", "eating">> }

StressOutputs == SeqsUpTo(StressLines, MaxOut)

AnalysisOutputs == FormatOutputs \cup ScenarioOutputs \cup EatingOutputs \cup StressOutputs

AnalysisRets == ExitCodes \cup TermCodes \cup {None}

\* the pairs analysed: every exit code with the outputs of the stress check, the
\* one scenario that looks at the exit code, and exit code 0 with the others
AnalysisPairs == (AnalysisRets \X StressOutputs) \cup ({0} \X AnalysisOutputs)

\* a pair run_command returned: line 64 for a spawned process, line 68 for a
\* failed spawn
InitAnalysis ==
    /\ pc = "analyse"
    /\ \E p \in AnalysisPairs : ret = p[1] /\ output_lines = p[2]
    /\ failed \in BOOLEAN
    /\ failed => (ret = SpawnFailCode /\ output_lines = <<>>)
    /\ timeout = None
    /\ process = 0
    /\ output_thread = 0
    /\ stop_thread = FALSE
    /\ call = 1
    /\ tests_passed = 0
    /\ tests_failed = 0
    /\ total_tests = 0
    /\ pst = [p \in Slots |-> "unborn"]
    /\ pcode = [p \in Slots |-> None]
    /\ returncode = [p \in Slots |-> None]
    /\ pending = [p \in Slots |-> {}]
    /\ held = [p \in Slots |-> FALSE]
    /\ buf = [p \in Slots |-> <<>>]
    /\ nlines = [p \in Slots |-> 0]
    /\ tpc = [t \in Slots |-> "unborn"]
    /\ tstream = [t \in Slots |-> 0]
    /\ remaining = [t \in Slots |-> <<>>]
    /\ written = <<>>
    /\ nown = 0
    /\ sent = <<>>
    /\ first = NoRun
    /\ ExtIdle

\* the analysis of one scenario is carried out and leaves its findings in
\* result; the same analysis may then be carried out once more on the same pair
Analysed(r) ==
    /\ \/ pc = "analyse" /\ pc' = "analysed"
       \/ pc = "analysed" /\ r.test = result.test /\ pc' = "reanalysed"
    /\ result' = r
    /\ UNCHANGED << timeout, process, output_thread, stop_thread, output_lines, failed, ret,
                    scoreVars, procVars, buf, nlines, threadVars, histVars, first, trackVars,
                    errVars >>

\* run_basic_format_test, lines 119-133
AnalyseFormat ==
    Analysed([test |-> "format",
              passed |-> run_basic_format_test(ret, output_lines).checks,
              invalid_lines |-> format_loop(output_lines, 1, valid_format_init, <<>>).invalid_lines])

\* what a scenario recorded: the passed flag of each print_test_result call, in
\* order, and whether an exception ended it
Findings(test, o) == [test |-> test, passed |-> o.checks, raised |-> o.raised]

\* run_death_detection_test, lines 143-161
AnalyseDeath == Analysed(Findings("death", run_death_detection_test(ret, output_lines)))

\* run_one_philosopher_test, lines 171-195
AnalyseOne == Analysed(Findings("one", run_one_philosopher_test(ret, output_lines)))

\* run_stop_after_meals_test, lines 205-218
AnalyseMeals == Analysed(Findings("meals", run_stop_after_meals_test(ret, output_lines)))

\* run_deadlock_test of philosopher_tester.py, lines 263-275
AnalyseDeadlock == Analysed(Findings("deadlock", run_deadlock_test(ret, output_lines)))

\* run_stress_test, lines 283-289
AnalyseStress == Analysed(Findings("stress", run_stress_test(ret, output_lines)))

\* run_deadlock_test of philosopher_tester_simple.py, lines 264-320
AnalyseDeadlockSimple ==
    \E o \in {simple_run_deadlock_test(ret, output_lines)} :
        Analysed([test |-> "deadlock_simple", passed |-> o.checks, raised |-> o.raised,
                  all_ate |-> o.all_ate, fair_distribution |-> o.fair_distribution])


\* ---------------------------------- PhilosopherVisualizer: the event tracker
\* philosopher_visualizer.py.  The tracker state is the record
\* [eating_events, fork_events, philosopher_states, max_time, raised]; raised
\* tells that a statement raised (a KeyError of philosopher_states[philo_id]),
\* which ends the capture thread.
MaxEvents == 4      \* lines captured in one run_simulation

\* the actor counts run_simulation is called with (int(args[0]))
ActorCounts == {1, 2}

\* the stripped lines _parse_event is given
TrackLines == { <<"2", "1", "is", "eating">>,
                <<"1", "1", "is", "eating">>,
                <<"1", "2", "is", "eating">>,
                <<"1", "1", "has", "taken", "a", "fork">>,
                <<"1", "1", "is", "sleeping">>,
                <<"1", "1", "is", "thinking">>,
                <<"3", "1", "died">>,
                <<"1", "3", "is", "eating">>,
                <<"5", "1", "waits">>,
                <<"5", "3", "waits">>,
                <<"Error">>,
                <<"5", "philo", "waits">>,
                AllAtePhrase }

Max(a, b) == IF a >= b THEN a ELSE b

\* line 37: the entry of an actor at the start of a run
NewActor == [state |-> "thinking", forks |-> 0, meals |-> 0, last_change |-> 0]

\* a pattern that asks for digits in the first field only
EventMatch_FirstField(l) == Len(l) >= 3 /\ IsDigits(l[1])

\* lines 115-116: re.match(r"^(\d+) (\d+) (.+)$", line)
EventMatch(l) == Len(l) >= 3 /\ IsDigits(l[1]) /\ IsDigits(l[2])

\* an 'is eating' that leaves the counter alone
EatMeal_Skipped(meals) == meals

\* line 129: `self.philosopher_states[philo_id]["meals"] += 1`
EatMeal(meals) == meals + 1

\* line 140: `self.philosopher_states[philo_id]["forks"] += 1`
TakeFork(forks) == forks + 1

\* lines 128-130, 132-134, 136-137, 140-141, 143-144: the entry of philo_id after the action
ActorAfter(a, action, timestamp) ==
    CASE action = <<"is", "eating">> ->
           [a EXCEPT !.state = "eating", !.meals = EatMeal(@), !.last_change = timestamp]
      [] action = <<"is", "sleeping">> ->
           [a EXCEPT !.state = "sleeping", !.forks = 0, !.last_change = timestamp]
      [] action = <<"is", "thinking">> ->
           [a EXCEPT !.state = "thinking", !.last_change = timestamp]
      [] action = <<"has", "taken", "a", "fork">> ->
           [a EXCEPT !.forks = TakeFork(@), !.last_change = timestamp]
      [] action = <<"died">> ->
           [a EXCEPT !.state = "died", !.last_change = timestamp]
      [] OTHER -> a

\* a chain whose last branch is an `else`: every message indexes the entry
Indexes_Always(action) == TRUE

\* lines 126, 131, 135, 138, 142: the if/elif chain has a branch for the
\* message; every branch indexes self.philosopher_states[philo_id], and a
\* message of no branch falls through the chain
Indexes(action) == action \in EventPhrases

\* lines 113-144: _parse_event(line) applied to tracker state st
parse_event(st, l) ==
    IF ~EventMatch(l) THEN st
    ELSE LET timestamp == Numeral[l[1]]
             philo_id == Numeral[l[2]]
             action == SubSeq(l, 3, Len(l))
             s1 == [st EXCEPT !.max_time = Max(@, timestamp)]
             s2 == CASE action = <<"is", "eating">> ->
                          [s1 EXCEPT !.eating_events = Append(@, <<timestamp, philo_id>>)]
                     [] action = <<"has", "taken", "a", "fork">> ->
                          [s1 EXCEPT !.fork_events = Append(@, <<timestamp, philo_id>>)]
                     [] OTHER -> s1
         IN  IF ~Indexes(action) THEN s2
             ELSE IF philo_id \notin DOMAIN st.philosopher_states
                    THEN [s2 EXCEPT !.raised = TRUE]
                    ELSE [s2 EXCEPT !.philosopher_states[philo_id] =
                                        ActorAfter(@, action, timestamp)]

\* the tracker state held in the variables
Tracker ==
    [eating_events |-> eating_events, fork_events |-> fork_events,
     philosopher_states |-> philosopher_states, max_time |-> max_time, raised |-> FALSE]

InitTracker ==
    /\ pc = "idle"
    /\ output_lines = <<>>
    /\ ret = None
    /\ timeout = None
    /\ process = 0
    /\ output_thread = 0
    /\ stop_thread = FALSE
    /\ failed = FALSE
    /\ call = 1
    /\ tests_passed = 0
    /\ tests_failed = 0
    /\ total_tests = 0
    /\ pst = [p \in Slots |-> "unborn"]
    /\ pcode = [p \in Slots |-> None]
    /\ returncode = [p \in Slots |-> None]
    /\ pending = [p \in Slots |-> {}]
    /\ held = [p \in Slots |-> FALSE]
    /\ buf = [p \in Slots |-> <<>>]
    /\ nlines = [p \in Slots |-> 0]
    /\ tpc = [t \in Slots |-> "unborn"]
    /\ tstream = [t \in Slots |-> 0]
    /\ remaining = [t \in Slots |-> <<>>]
    /\ written = <<>>
    /\ nown = 0
    /\ sent = <<>>
    /\ first = NoRun
    /\ ExtIdle

trackFrame == << timeout, process, output_thread, stop_thread, failed, ret, scoreVars,
                 procVars, buf, nlines, threadVars, histVars, first, result, errVars >>

\* run_simulation, lines 27-37: the run's lists and states are set up anew
\* (self.max_time is not among them) and the capture thread is started
run_simulation(num_philosophers) ==
    /\ pc \in {"idle", "sim", "sim_raised", "processed"}
    /\ output_lines' = <<>>
    /\ eating_events' = <<>>
    /\ fork_events' = <<>>
    /\ philosopher_states' = [i \in 1..num_philosophers |-> NewActor]
    /\ pc' = "sim"
    /\ UNCHANGED << max_time, meal_intervals, trackFrame >>

\* _capture_output, lines 98-101 and 108-111: a line is read, stripped, logged
\* and parsed; an exception raised by _parse_event ends the thread
V_Capture(l) ==
    /\ pc = "sim"
    /\ Len(output_lines) < MaxEvents
    /\ output_lines' = Append(output_lines, l)
    /\ \E st \in {parse_event(Tracker, l)} :
          /\ eating_events' = st.eating_events
          /\ fork_events' = st.fork_events
          /\ philosopher_states' = st.philosopher_states
          /\ max_time' = st.max_time
          /\ pc' = IF st.raised THEN "sim_raised" ELSE "sim"
    /\ UNCHANGED << meal_intervals, trackFrame >>

\* a list left in the order of capture
sort_events_Unsorted(evs) == evs

\* line 212: self.eating_events.sort(key=lambda x: x[0]), a stable sort by
\* timestamp: an event goes behind those with a smaller timestamp and those
\* with the same timestamp that came before it
sort_events(evs) ==
    LET rank(k) == Cardinality({j \in 1..Len(evs) :
                        \/ evs[j][1] < evs[k][1]
                        \/ evs[j][1] = evs[k][1] /\ j < k})
    IN  [p \in 1..Len(evs) |-> evs[CHOOSE k \in 1..Len(evs) : rank(k) = p - 1]]

\* lines 215-222: the loop over the events from the i-th on, with
\* last_meal_time and meal_intervals as dictionaries (functions on their keys)
RECURSIVE meal_loop(_, _, _, _)
meal_loop(evs, i, last_meal_time, intervals) ==
    IF i > Len(evs) THEN intervals
    ELSE LET time == evs[i][1]
             philo_id == evs[i][2]
             interval == time - last_meal_time[philo_id]
         IN  meal_loop(evs, i + 1,
                       [x \in DOMAIN last_meal_time \cup {philo_id} |->
                           IF x = philo_id THEN time ELSE last_meal_time[x]],
                       IF philo_id \in DOMAIN last_meal_time
                         THEN [x \in DOMAIN intervals \cup {philo_id} |->
                                 IF x # philo_id THEN intervals[x]
                                 ELSE Append(IF x \in DOMAIN intervals THEN intervals[x]
                                             ELSE <<>>, interval)]
                         ELSE intervals)

\* lines 79-83 and 210-222: the capture thread has ended and run_simulation
\* calls _process_events, which sorts eating_events in place and sets
\* meal_intervals
V_ProcessEvents ==
    /\ pc \in {"sim", "sim_raised"}
    /\ eating_events' = sort_events(eating_events)
    /\ meal_intervals' = meal_loop(sort_events(eating_events), 1, <<>>, <<>>)
    /\ pc' = "processed"
    /\ UNCHANGED << output_lines, fork_events, philosopher_states, max_time, trackFrame >>

\* _capture_output over a whole output, from line i on: each line is parsed in
\* turn until one raises
RECURSIVE track_all(_, _, _)
track_all(st, out, i) ==
    IF i > Len(out) \/ st.raised THEN st ELSE track_all(parse_event(st, out[i]), out, i + 1)

\* the tracker state at the start of a run with n actors and a fresh object
FreshTracker(n) ==
    [eating_events |-> <<>>, fork_events |-> <<>>,
     philosopher_states |-> [i \in 1..n |-> NewActor], max_time |-> 0, raised |-> FALSE]

\* print_statistics, lines 230-236 and 264-284: the counts and the diagnosis
print_statistics(st) ==
    LET counts(philo_id) ==
            Cardinality({k \in 1..Len(st.eating_events) : st.eating_events[k][2] = philo_id})
        total == Len(st.eating_events)
        num_philosophers == Cardinality(DOMAIN st.philosopher_states)
        all_ate == \A philo_id \in 1..num_philosophers : counts(philo_id) > 0
        fair_distribution ==
            ~ /\ all_ate
              /\ total >= num_philosophers
              /\ \E philo_id \in 1..num_philosophers :
                    below_half_mean(counts(philo_id), total, num_philosophers)
    IN  [all_ate |-> all_ate, fair_distribution |-> fair_distribution,
         diagnosis |-> IF ~all_ate THEN "deadlock"
                       ELSE IF ~fair_distribution THEN "starvation" ELSE "none"]

NextTracker ==
    \/ \E n \in ActorCounts : run_simulation(n)
    \/ \E l \in TrackLines : V_Capture(l)

SpecTracker == InitTracker /\ [][NextTracker]_vars

\* runs that end and are followed by _process_events, over the lines that
\* name a meal and one that does not
MealLinesTracked == { l \in TrackLines : EventMatch(l) /\ SubSeq(l, 3, Len(l)) = <<"is", "eating">> }
                        \cup { <<"5", "3", "waits">> }

NextIntervals ==
    \/ \E n \in ActorCounts : run_simulation(n)
    \/ \E l \in MealLinesTracked : V_Capture(l)
    \/ V_ProcessEvents

SpecIntervals == InitTracker /\ [][NextIntervals]_vars

\* ---------------------------------------- the analyses, as a specification
\* print_statistics after a run of the visualizer with five actors that
\* captured output_lines
AnalyseStatistics ==
    \E o \in {print_statistics(track_all(FreshTracker(NPhilo), output_lines, 1))} :
        Analysed([test |-> "statistics", passed |-> <<>>, raised |-> FALSE,
                  all_ate |-> o.all_ate, fair_distribution |-> o.fair_distribution,
                  diagnosis |-> o.diagnosis])

NextAnalysis ==
    \/ AnalyseFormat
    \/ AnalyseDeath
    \/ AnalyseOne
    \/ AnalyseMeals
    \/ AnalyseDeadlock
    \/ AnalyseStress
    \/ AnalyseDeadlockSimple
    \/ AnalyseStatistics

SpecAnalysis == InitAnalysis /\ [][NextAnalysis]_vars

\* ------------------------------------------------- one run, under fairness
\* run_command is called once on a fresh object
CallOnce(t) == pc = "idle" /\ Call(t)

\* the main thread is scheduled: time passes (the deadline of the poll loop
\* comes), sleeps end, and join(1) returns after its second
MainThread ==
    \/ \E s \in Slots : SpawnOK(s)
    \/ SpawnFail
    \/ PollExited
    \/ Deadline
    \/ Check51
    \/ Check54
    \/ Wait
    \/ Stop
    \/ JoinDone
    \/ JoinTimeout

NextOnce ==
    \/ \E t \in Timeouts : CallOnce(t)
    \/ MainThread
    \/ Target
    \/ \E p \in Slots, l \in LineSet : P_Write(p, l)
    \/ \E p \in Slots, l \in LineSet : D_Write(p, l)
    \/ Capture

\* the threads are scheduled and the kernel delivers SIGKILL; the target and
\* its descendants owe nothing
SpecOnce ==
    /\ Init /\ [][NextOnce]_vars
    /\ WF_vars(MainThread)
    /\ WF_vars(Capture)
    /\ WF_vars(\E p \in Slots, h \in BOOLEAN : P_Killed(p, h))

\* PhilosopherVisualizer.run_simulation supervises its process with the same
\* statements (Popen and the capture thread, lines 49-59; the poll loop, line
\* 66; terminate(), the sleep and kill(), lines 70-75; the stop flag, line 78),
\* always with a timeout, and then waits for the capture thread without one
\* line 79: self.output_thread.join()
V_Join ==
    /\ pc = "join"
    /\ tpc[output_thread] = "done"
    /\ Return
    /\ UNCHANGED first

V_MainThread ==
    \/ \E s \in Slots : SpawnOK(s)
    \/ SpawnFail
    \/ PollExited
    \/ Deadline
    \/ Check51
    \/ Check54
    \/ Stop
    \/ V_Join

NextSim ==
    \/ CallOnce(5)
    \/ V_MainThread
    \/ Target
    \/ \E p \in Slots, l \in LineSet : P_Write(p, l)
    \/ \E p \in Slots, l \in LineSet : D_Write(p, l)
    \/ Capture

SpecSim ==
    /\ Init /\ [][NextSim]_vars
    /\ WF_vars(V_MainThread)
    /\ WF_vars(Capture)
    /\ WF_vars(\E p \in Slots, h \in BOOLEAN : P_Killed(p, h))

\* ------------------------------------------------------ the stderr pipe
\* Popen is given stderr=subprocess.PIPE (line 33) and nothing ever reads that
\* pipe.  What the target writes to stderr is counted in chunks; the pipe holds
\* PipeCapacity of them, and a write to a full pipe blocks.
PipeCapacity == 1   \* chunks the stderr pipe holds
MaxErr == 2         \* chunks a target writes to its stderr before it exits

\* a fresh object and a target that has errtodo chunks to write to stderr
InitErr ==
    /\ pc = "idle"
    /\ timeout = None
    /\ process = 0
    /\ output_thread = 0
    /\ stop_thread = FALSE
    /\ output_lines = <<>>
    /\ failed = FALSE
    /\ ret = None
    /\ call = 1
    /\ tests_passed = 0
    /\ tests_failed = 0
    /\ total_tests = 0
    /\ pst = [p \in Slots |-> "unborn"]
    /\ pcode = [p \in Slots |-> None]
    /\ returncode = [p \in Slots |-> None]
    /\ pending = [p \in Slots |-> {}]
    /\ held = [p \in Slots |-> FALSE]
    /\ buf = [p \in Slots |-> <<>>]
    /\ nlines = [p \in Slots |-> 0]
    /\ tpc = [t \in Slots |-> "unborn"]
    /\ tstream = [t \in Slots |-> 0]
    /\ remaining = [t \in Slots |-> <<>>]
    /\ written = <<>>
    /\ nown = 0
    /\ sent = <<>>
    /\ first = NoRun
    /\ result = NoResult
    /\ eating_events = <<>>
    /\ fork_events = <<>>
    /\ philosopher_states = <<>>
    /\ max_time = 0
    /\ meal_intervals = <<>>
    /\ errtodo \in 0..MaxErr
    /\ errbuf = 0

\* line 33: the pipe takes a write as long as it is not full
StderrRoom == errbuf < PipeCapacity

\* the target writes a chunk to its stderr
P_ErrWrite(p) ==
    /\ p = process
    /\ pst[p] = "alive"
    /\ errtodo > 0
    /\ StderrRoom
    /\ errtodo' = errtodo - 1
    /\ errbuf' = errbuf + 1
    /\ UNCHANGED << mainVars, output_lines, scoreVars, procVars, buf, nlines, threadVars,
                    histVars, first, result, trackVars >>

\* the target ends by itself once it has written what it had to write
E_Exit(p, code, h) ==
    /\ errtodo = 0
    /\ P_Exit(p, code, h)

\* the steps of a target that goes on whenever it can
TargetRuns ==
    \/ \E p \in Slots : P_ErrWrite(p)
    \/ \E p \in Slots, code \in ExitCodes, h \in BOOLEAN : E_Exit(p, code, h)

NextErr ==
    \/ \E t \in Timeouts : CallOnce(t)
    \/ MainThread
    \/ TargetRuns
    \/ \E p \in Slots, code \in TermCodes, h \in BOOLEAN : P_Term(p, code, h)
    \/ \E p \in Slots, h \in BOOLEAN : P_Killed(p, h)
    \/ \E p \in Slots : D_Close(p)
    \/ \E p \in Slots, l \in LineSet : P_Write(p, l)
    \/ Capture

\* the threads are scheduled, the kernel delivers SIGKILL, and the target is
\* one that runs to its exit when nothing holds it up
SpecErr ==
    /\ InitErr /\ [][NextErr]_vars
    /\ WF_vars(MainThread)
    /\ WF_vars(Capture)
    /\ WF_vars(\E p \in Slots, h \in BOOLEAN : P_Killed(p, h))
    /\ WF_vars(TargetRuns)

\* ------------------------------------------------------------------ checks
\* the supervised run has spawned its process and has not returned a failure
Running == pc \notin {"idle", "spawn", "tests", "crashed", "done"} /\ ~failed

Returned == pc = "returned" /\ ~failed

\* what run_command can hand back, as RunCall draws it
ReturnContract ==
    pc = "returned" =>
        IF failed THEN ret = SpawnFailCode ELSE ret \in RetCodes(timeout)

\* C1: when run_command returns after a successful spawn, the capture thread
\* has already ended, so nothing is appended to the returned list afterwards.
C1_ThreadEndedAtReturn == Returned => tpc[output_thread] = "done"

\* C2: within a supervised run output_lines is at all times a prefix of the
\* lines written to the process's stdout, each as captured, in the same order.
C2_LogIsPrefix == Running => IsPrefix(output_lines, StripAll(written))

\* C3: every line the process wrote to stdout before it stopped is in the
\* output run_command returns, on every path.
C3_NoTrailingLost ==
    Returned => \A i \in 1..nown : \E j \in 1..Len(output_lines) :
                    output_lines[j] = Captured(written[i])

\* C4: with a timeout, terminate() is sent only after the poll loop, to a
\* process seen alive; kill() only after terminate() and the grace sleep, to a
\* process still seen alive; never kill() without terminate(); and a process
\* that has ended is sent nothing.
C4_GraduatedTermination ==
    [][ /\ sent' \in {<<>>, <<"terminate">>, <<"terminate", "kill">>}
        /\ Len(sent') > Len(sent) =>
              /\ pst[process] = "alive"
              /\ \/ pc = "check51" /\ sent' = <<"terminate">>
                 \/ pc = "grace" /\ sent' = <<"terminate", "kill">>
        /\ (Running /\ pst[process] = "dead") => (sent' = sent \/ pc' = "spawn")
      ]_vars

\* the deadline passed, terminate() was not enough, kill() followed
C4_Witness == Returned /\ sent = <<"terminate", "kill">> /\ ret = None

\* C5: the result of a run tells whether the deadline path sent a signal: two
\* runs that return the same result agree on it.
C5_TimedOutRecorded ==
    (Returned /\ first.done /\ ret = first.ret /\ output_lines = first.out)
        => ((sent # <<>>) = first.signalled)

\* C6: without a timeout run_command sends no signal and returns only after
\* the process has ended by itself, with that process's exit code.
C6_NoTimeoutWaits ==
    (Running /\ ~Truthy(timeout)) =>
        /\ sent = <<>>
        /\ pending[process] = {}
        /\ pc \in {"stop", "join", "returned"} =>
              /\ pst[process] = "dead"
              /\ pcode[process] \in ExitCodes
        /\ pc = "returned" => ret # None /\ ret = pcode[process]

\* a run without timeout returned the exit code 1 of its process
C6_Witness == Returned /\ timeout = None /\ ret = 1 /\ pcode[process] = 1

\* C7: a failed spawn returns an empty list and a marker that no run with a
\* successful spawn can return.
C7_SpawnFailureDistinct ==
    pc = "returned" =>
        IF failed THEN Output = <<>>
        ELSE << ret, Output >> # << SpawnFailCode, <<>> >>

\* C8: when run_command reports a spawn failure, every check the scenario
\* records is recorded as failed, none as passed.
C8_SpawnFailureFailsAll == [][ failed' => tests_passed' = tests_passed ]_vars

\* C9: no exception leaves run_all_tests, whatever lines and exit code the
\* runs returned.
C9_NoExceptionEscapes == pc # "crashed"

\* C10: at most one external process is alive at a time, and when the next
\* one is about to be spawned the previous process has ended and its capture
\* thread has ended.
C10_Sequential ==
    /\ Cardinality({p \in Slots : pst[p] = "alive"}) <= 1
    /\ pc = "spawn" => \A p \in Slots : pst[p] # "alive" /\ ~Alive(p)

\* C11: the format check passes iff every captured line is one of the event
\* lines '<digits> <digits> <one of the five phrases>' or contains the quota
\* phrase, and never more than 5 offending lines are collected.
EventLines == { <<t, n>> \o ph : t \in DOMAIN Numeral, n \in DOMAIN Numeral, ph \in EventPhrases }

C11_FormatVerdict ==
    (pc = "analysed" /\ result.test = "format") =>
        /\ result.passed[1] =
              (\A i \in 1..Len(output_lines) :
                  \/ output_lines[i] \in EventLines
                  \/ \E a \in 0..Len(output_lines[i]), b \in 1..(Len(output_lines[i]) + 1) :
                        output_lines[i] = SubSeq(output_lines[i], 1, a) \o AllAtePhrase
                                            \o SubSeq(output_lines[i], b, Len(output_lines[i])))
        /\ Len(result.invalid_lines) <= 5

\* six offending lines were analysed, five of them collected
C11_Witness ==
    /\ pc = "analysed" /\ result.test = "format"
    /\ Len(output_lines) = MaxFormatLen
    /\ \A i \in 1..Len(output_lines) : output_lines[i] = <<"310", "1", "died", "too">>
    /\ Len(result.invalid_lines) = 5
    /\ ~result.passed[1]

\* the death events of an output: lines '<digits> <digits> died'
DiedEvents(out) ==
    {i \in 1..Len(out) : /\ Len(out[i]) = 3
                          /\ out[i][1] \in DOMAIN Numeral
                          /\ out[i][2] \in DOMAIN Numeral
                          /\ out[i][3] = "died"}

\* the check recorded k-th by the scenario was recorded as passed
Passed(k) == Len(result.passed) >= k /\ result.passed[k]

\* C12: in the death-detection scenario 'Death detection' passes iff the
\* output holds a death event, and 'Death timing accuracy' passes iff the
\* timestamp of the (first) death event is in 300..320.
C12_DeathVerdict ==
    (pc = "analysed" /\ result.test = "death") =>
        /\ Passed(1) = (DiedEvents(output_lines) # {})
        /\ Passed(2) = (\E i \in DiedEvents(output_lines) :
                           /\ \A j \in DiedEvents(output_lines) : i <= j
                           /\ Numeral[output_lines[i][1]] \in 300..320)

\* the fork events of an output: lines '<digits> <digits> has taken a fork'
ForkEvents(out) ==
    {i \in 1..Len(out) : /\ Len(out[i]) = 6
                          /\ out[i][1] \in DOMAIN Numeral
                          /\ out[i][2] \in DOMAIN Numeral
                          /\ SubSeq(out[i], 3, 6) = <<"has", "taken", "a", "fork">>}

\* C13: the one-philosopher scenario passes (all three of its checks pass)
\* only if the output holds a single death event, exactly one fork event
\* before it, and the death's timestamp is in 770..830.
C13_OnePhilosopherVerdict ==
    (pc = "analysed" /\ result.test = "one" /\ Passed(1) /\ Passed(2) /\ Passed(3)) =>
        \E d \in DiedEvents(output_lines) :
            /\ DiedEvents(output_lines) = {d}
            /\ Cardinality({f \in ForkEvents(output_lines) : f < d}) = 1
            /\ Numeral[output_lines[d][1]] \in 770..830

\* line l holds the quota phrase
QuotaLine(l) ==
    \E a \in 0..Len(l), b \in 1..(Len(l) + 1) :
        l = SubSeq(l, 1, a) \o AllAtePhrase \o SubSeq(l, b, Len(l))

\* C14: the quota scenario passes (both of its checks pass) iff the output
\* holds the quota line and no death event.
C14_QuotaVerdict ==
    (pc = "analysed" /\ result.test = "meals") =>
        (Passed(1) /\ Passed(2)) =
            (/\ \E i \in 1..Len(output_lines) : QuotaLine(output_lines[i])
             /\ DiedEvents(output_lines) = {})

\* C15: a malformed-argument check passes only if the target ended by itself
\* with a non-zero status and a captured line holds 'Error'; a target stopped
\* by terminate() or kill() at the deadline does not pass.
C15_ErrorCheckNeedsOwnExit ==
    (/\ Returned /\ Truthy(timeout)
     /\ tpc[output_thread] = "done"
     /\ run_error_handling_test(ret, output_lines).checks[1]) =>
        /\ sent = <<>>
        /\ pcode[process] \in ExitCodes \ {0}
        /\ \E i \in 1..Len(output_lines) : \E k \in 1..Len(output_lines[i]) :
              output_lines[i][k] = "Error"

\* the actors that have an eating event '<digits> <id> is eating' in an output
Eaters(out) ==
    { Numeral[out[i][2]] :
        i \in {j \in 1..Len(out) : /\ Len(out[j]) = 4
                                     /\ out[j][1] \in DOMAIN Numeral
                                     /\ out[j][2] \in DOMAIN Numeral
                                     /\ SubSeq(out[j], 3, 4) = <<"is", "eating">>} }

\* C16: the deadlock check of philosopher_tester.py passes iff every actor id
\* in 1..5 has an eating event, whatever other ids appear in the output.
C16_DeadlockVerdict ==
    (pc = "analysed" /\ result.test = "deadlock" /\ ~result.raised) =>
        Passed(1) = (1..5 \subseteq Eaters(output_lines))

\* C18: every tracked actor holds 0, 1 or 2 forks after any sequence of events.
C18_ForksAtMostTwo ==
    \A i \in DOMAIN philosopher_states : philosopher_states[i].forks \in {0, 1, 2}

\* C19: once an actor's tracked state is 'died' it stays 'died' for the rest
\* of the run, whatever events follow.
C19_DeathTerminal ==
    [][ \A i \in DOMAIN philosopher_states :
          (philosopher_states[i].state = "died" /\ output_lines' # <<>>)
              => philosopher_states'[i].state = "died" ]_vars

\* the 'is eating' events of actor i among the lines captured in this run
MealLines(i) ==
    {j \in 1..Len(output_lines) : /\ Len(output_lines[j]) = 4
                                   /\ output_lines[j][1] \in DOMAIN Numeral
                                   /\ output_lines[j][2] \in DOMAIN Numeral
                                   /\ Numeral[output_lines[j][2]] = i
                                   /\ SubSeq(output_lines[j], 3, 4) = <<"is", "eating">>}

\* C20: each tracked actor's meals counter equals the number of its
\* 'is eating' events captured in the run, and the number of its entries in
\* eating_events.
C20_MealsCounted ==
    \A i \in DOMAIN philosopher_states :
        /\ philosopher_states[i].meals = Cardinality(MealLines(i))
        /\ philosopher_states[i].meals =
              Cardinality({k \in 1..Len(eating_events) : eating_events[k][2] = i})

\* actor 1 has eaten twice
C20_Witness ==
    /\ pc = "sim"
    /\ 1 \in DOMAIN philosopher_states
    /\ philosopher_states[1].meals = 2
    /\ Len(eating_events) = 3

\* the 'is eating' events of an output, all of them or those of actor i
MealEvents(out) ==
    {j \in 1..Len(out) : /\ Len(out[j]) = 4
                          /\ out[j][1] \in DOMAIN Numeral
                          /\ out[j][2] \in DOMAIN Numeral
                          /\ SubSeq(out[j], 3, 4) = <<"is", "eating">>}

MealsOf(out, i) == Cardinality({j \in MealEvents(out) : Numeral[out[j][2]] = i})

\* the analysis flagged an unfair distribution: 'No starvation' recorded as
\* failed by the tester, the starvation diagnosis by the visualizer
Unfair ==
    IF result.test = "statistics" THEN result.diagnosis = "starvation"
    ELSE result.passed = <<TRUE, FALSE>>

\* C17: with N = 5 actors an unfair distribution is flagged iff all N have
\* eaten, total meals >= 2*N, and some actor has 2*N*meals < total meals.
C17_UnfairVerdict ==
    (pc = "analysed" /\ result.test \in {"deadlock_simple", "statistics"} /\ ~result.raised) =>
        Unfair =
            (/\ \A i \in 1..5 : MealsOf(output_lines, i) > 0
             /\ Cardinality(MealEvents(output_lines)) >= 2 * 5
             /\ \E i \in 1..5 :
                   2 * 5 * MealsOf(output_lines, i) < Cardinality(MealEvents(output_lines)))

\* thirteen meals, one actor with a single one: flagged by the tester
C17_Witness ==
    /\ pc = "analysed" /\ result.test = "deadlock_simple"
    /\ Cardinality(MealEvents(output_lines)) = 13
    /\ MealsOf(output_lines, 1) = 1
    /\ \A i \in 2..5 : MealsOf(output_lines, i) = 3
    /\ Unfair

\* C21: an event of an actor id that has no entry yet never raises: the
\* tracker creates the entry, and the capture thread goes on collecting.
C21_UnknownActorCreated ==
    /\ pc # "sim_raised"
    /\ pc = "sim" =>
          \A j \in 1..Len(output_lines) :
              output_lines[j] \in EventLines =>
                  Numeral[output_lines[j][2]] \in DOMAIN philosopher_states

C23_StopAfterExit ==
    /\ (Running /\ stop_thread) => pst[process] = "dead"
    /\ Returned => pst[process] = "dead"

\* C24: within a supervised run only the capture thread started for it reads
\* the stdout of its process and appends to its output_lines; a thread of an
\* earlier run does neither.
C24_OneReaderPerRun ==
    [][ Running' =>
          /\ \A t \in Slots : (Alive(t)' /\ t # output_thread') => tstream'[t] # process'
          /\ (Running /\ Len(output_lines') > Len(output_lines)) =>
                tpc'[output_thread] # tpc[output_thread] ]_vars

\* C25: a supervised run that was given a timeout eventually returns,
\* whatever the target and its descendants do.
C25_EventuallyReturns == (pc = "spawn" /\ Truthy(timeout)) ~> (pc = "returned")

\* the signals run_command sent to the process of the current run
Signalled(sig) == \E k \in 1..Len(sent) : sent[k] = sig

\* C26: run_command returns None as exit code exactly when it stopped the
\* process by kill(); a process that ended by itself, or after terminate()
\* within the grace sleep, has its integer exit status returned.
C26_NoneIffKilled ==
    Returned =>
        /\ (ret = None) = Signalled("kill")
        /\ ~Signalled("kill") => (ret = pcode[process] /\ ret \in ExitCodes \cup TermCodes)
        /\ (sent = <<>>) => ret \in ExitCodes

\* a run whose process fell to SIGKILL returned None
C26_Witness ==
    /\ Returned /\ ret = None
    /\ sent = <<"terminate", "kill">>
    /\ pcode[process] = 0 - SIGKILL

\* line l is not of the form '<digits> <digits> <message>'
FailsGrammar(l) ==
    ~ /\ Len(l) >= 3
      /\ l[1] \in DOMAIN Numeral
      /\ l[2] \in DOMAIN Numeral

\* C27: a captured line that fails the event grammar (the quota line among
\* them) is appended to output_lines, leaves eating_events, fork_events,
\* philosopher_states and max_time as they were, and does not end collection.
C27_ParseSkipFrame ==
    [][ (pc = "sim" /\ Len(output_lines') = Len(output_lines) + 1
           /\ FailsGrammar(output_lines'[Len(output_lines')])) =>
            /\ SubSeq(output_lines', 1, Len(output_lines)) = output_lines
            /\ eating_events' = eating_events
            /\ fork_events' = fork_events
            /\ philosopher_states' = philosopher_states
            /\ max_time' = max_time
            /\ pc' = "sim" ]_vars

\* the quota line was captured, then a meal, which was tracked
C27_Witness ==
    /\ pc = "sim"
    /\ Len(output_lines) = 3
    /\ output_lines[2] = AllAtePhrase
    /\ output_lines[3] = <<"1", "1", "is", "eating">>
    /\ eating_events = << <<2, 1>>, <<1, 1>> >>
    /\ max_time = 2

\* C28: run_all_tests makes the scenarios' calls in the order format, death,
\* one philosopher, meals, error handling, deadlock, stress, each once; a
\* scenario that records failed checks is followed by the next one all the
\* same, and the summary comes only after the last.
C28_FixedOrder ==
    [][ pc = "tests" =>
          /\ [c \in Calls |-> CallTest(c)] =
                <<"format", "death", "one", "meals", "error", "error", "error", "error",
                  "error", "deadlock", "stress">>
          /\ pc' \in {"tests", "done", "crashed"}
          /\ tests_failed' > tests_failed => pc' # "crashed"
          /\ pc' # "crashed" =>
                /\ call' = call + 1
                /\ (pc' = "done") = (call = NCalls) ]_vars

\* the summary was reached although ten checks had failed on the way
C28_Witness == pc = "done" /\ call = NCalls + 1 /\ tests_failed = 10

\* C29: tests_passed + tests_failed = total_tests in every state; what a
\* scenario records raises total_tests by the number of its checks and the
\* other two counters by as much together; no counter ever goes down.
C29_Scoreboard ==
    [][ /\ tests_passed + tests_failed = total_tests
        /\ tests_passed' + tests_failed' = total_tests'
        /\ tests_passed' >= tests_passed
        /\ tests_failed' >= tests_failed
        /\ total_tests' >= total_tests
        /\ pc = "tests" =>
              total_tests' - total_tests \in 0..3 ]_vars

\* all eleven calls made, fifteen checks recorded, on both sides of the scoreboard
C29_Witness ==
    /\ pc = "done"
    /\ tests_passed = 8 /\ tests_failed = 7 /\ total_tests = 15

\* line l holds the words 'Segmentation fault'
SegfaultLine(l) == \E k \in 1..(Len(l) - 1) : l[k] = "Segmentation" /\ l[k + 1] = "fault"

\* C30: the stress check passes iff the process was spawned and no captured
\* line holds 'Segmentation fault', whatever exit code the run returned.
C30_StressVerdict ==
    (pc = "analysed" /\ result.test = "stress") =>
        Passed(1) = (~failed /\ \A i \in 1..Len(output_lines) : ~SegfaultLine(output_lines[i]))

\* C31: stderr never holds the target up: a run_command without timeout on a
\* target that runs to its exit when its output is taken eventually returns.
C31_StderrNeverBlocks == (pc = "wait") ~> (pc = "returned")

\* C32: once the stop flag is up the capture thread of the run is never held
\* up by its stream: while it lives it can always take a step of its own, even
\* with the pipe still open and nothing in it.
C32_DrainNeverBlocks ==
    (Running /\ stop_thread /\ Alive(output_thread)) => ~Blocked(output_thread)

\* C33: run_command with timeout = 0 goes the way of a call without timeout:
\* it never enters the poll loop, sends neither terminate() nor kill(), and
\* gets past wait() only when the process has ended by itself.
C33_ZeroIsNoTimeout ==
    (Running /\ timeout = 0) =>
        /\ pc \in {"wait", "stop", "join", "returned"}
        /\ sent = <<>>
        /\ SIGTERM \notin pending[process] /\ SIGKILL \notin pending[process]
        /\ pc # "wait" => (pst[process] = "dead" /\ returncode[process] = pcode[process])

\* a run with timeout = 0 returned the exit code 1 of its process
C33_Witness == Returned /\ timeout = 0 /\ ret = 1 /\ sent = <<>>

\* C34: on every captured output that neither variant stumbles over,
\* run_deadlock_test of philosopher_tester.py and run_deadlock_test of
\* philosopher_tester_simple.py return the same boolean.
C34_DeadlockVariantsAgree ==
    /\ (pc = "analysed" /\ result.test = "deadlock" /\ ~result.raised
          /\ ~simple_run_deadlock_test(ret, output_lines).raised) =>
            result.passed[1] = simple_run_deadlock_test(ret, output_lines).all_ate
    /\ (pc = "analysed" /\ result.test = "deadlock_simple" /\ ~result.raised
          /\ ~run_deadlock_test(ret, output_lines).raised) =>
            result.all_ate = run_deadlock_test(ret, output_lines).checks[1]

\* the meals of the actors 1..n in an output, together
RECURSIVE MealsUpTo(_, _)
MealsUpTo(out, n) == IF n = 0 THEN 0 ELSE MealsOf(out, n) + MealsUpTo(out, n - 1)

\* C35: among the first n actors (n up to 5), when each has a meal and they
\* have fewer than 2*n meals together, none is below half their mean; and on
\* every output the tester's verdict (fairness looked at from 10 meals on)
\* is the visualizer's (from 5 meals on).
C35_ThresholdIrrelevant ==
    (pc = "analysed" /\ result.test = "deadlock_simple" /\ ~result.raised) =>
        /\ \A n \in 1..5 :
              (/\ \A i \in 1..n : MealsOf(output_lines, i) >= 1
               /\ MealsUpTo(output_lines, n) < 2 * n) =>
                  \A i \in 1..n : ~(2 * n * MealsOf(output_lines, i) < MealsUpTo(output_lines, n))
        /\ result.fair_distribution =
              print_statistics(track_all(FreshTracker(5), output_lines, 1)).fair_distribution

\* nine meals, all five actors fed: enough for the visualizer to look at
\* fairness, not enough for the tester
C35_Witness ==
    /\ pc = "analysed" /\ result.test = "deadlock_simple"
    /\ MealsOf(output_lines, 1) = 1
    /\ \A i \in 2..5 : MealsOf(output_lines, i) = 2
    /\ Cardinality(MealEvents(output_lines)) = 9
    /\ result.fair_distribution

\* the largest timestamp among the grammar-matching lines of an output from
\* line i on, 0 when there is none
RECURSIVE LargestStamp(_, _)
LargestStamp(out, i) ==
    IF i > Len(out) THEN 0
    ELSE Max(IF EventMatch(out[i]) THEN Numeral[out[i][1]] ELSE 0, LargestStamp(out, i + 1))

CustomEvent(l) ==
    /\ ~FailsGrammar(l)
    /\ SubSeq(l, 3, Len(l)) \notin
          { <<"has", "taken", "a", "fork">>, <<"is", "eating">>, <<"is", "sleeping">>,
            <<"is", "thinking">>, <<"died">> }

\* C37: a captured line of the event grammar whose message is none of the
\* five phrases raises max_time to its timestamp if that is larger and leaves
\* philosopher_states, eating_events and fork_events as they were, whether
\* its actor is known or not; collection goes on.
C37_CustomOnlyMaxTime ==
    [][ (pc = "sim" /\ Len(output_lines') = Len(output_lines) + 1
           /\ CustomEvent(output_lines'[Len(output_lines')])) =>
            /\ eating_events' = eating_events
            /\ fork_events' = fork_events
            /\ philosopher_states' = philosopher_states
            /\ max_time' = Max(max_time, Numeral[output_lines'[Len(output_lines')][1]])
            /\ pc' = "sim" ]_vars

\* after a meal and a fork of actor 1, a custom event of an actor the run
\* does not have was captured: only max_time moved
C37_Witness ==
    /\ pc = "sim"
    /\ output_lines = << <<"1", "1", "has", "taken", "a", "fork">>,
                         <<"2", "1", "is", "eating">>,
                         <<"5", "3", "waits">> >>
    /\ DOMAIN philosopher_states = {1, 2}
    /\ philosopher_states[1] = [state |-> "eating", forks |-> 1, meals |-> 1, last_change |-> 2]
    /\ eating_events = << <<2, 1>> >>
    /\ fork_events = << <<1, 1>> >>
    /\ max_time = 5

\* line 254: self.meal_intervals.get(philo_id, [])
IntervalsOf(philo_id) ==
    IF philo_id \in DOMAIN meal_intervals THEN meal_intervals[philo_id] ELSE <<>>

\* C38: after _process_events every recorded interval is non-negative, in
\* whatever order the timestamps were captured; an actor with k >= 1 eating
\* events in the run has k - 1 intervals, and an actor with none has none.
C38_IntervalsNonNegative ==
    (pc = "processed") =>
        /\ \A philo_id \in DOMAIN meal_intervals :
              \A k \in 1..Len(meal_intervals[philo_id]) : meal_intervals[philo_id][k] >= 0
        /\ \A philo_id \in 1..6 :
              LET k == Cardinality({e \in 1..Len(eating_events) :
                                       eating_events[e][2] = philo_id})
              IN  Len(IntervalsOf(philo_id)) = IF k >= 1 THEN k - 1 ELSE 0
        /\ DOMAIN meal_intervals \subseteq 1..6

\* actor 1's meals were captured with timestamps 2, 1, 2; actor 2 ate once
C38_Witness ==
    /\ pc = "processed"
    /\ output_lines = << <<"2", "1", "is", "eating">>, <<"1", "1", "is", "eating">>,
                         <<"1", "2", "is", "eating">>, <<"2", "1", "is", "eating">> >>
    /\ eating_events = << <<1, 1>>, <<1, 2>>, <<2, 1>>, <<2, 1>> >>
    /\ meal_intervals = (1 :> <<1, 0>>)

====
